---- MODULE Spec2Model ----
(***************************************************************************)
(* A model of the actor-critic agent of bsuite-tsobs                       *)
(* (bsuite/baselines/jax/actor_critic/agent.py), of its launcher (run.py)  *)
(* and of the Weights-and-Biases logger (bsuite/logging/wandb_logging.py). *)
(*                                                                         *)
(* Three specifications share the module:                                  *)
(*   Spec        the agent: select_action and update over its buffer;      *)
(*   SpecLogger  WandbLogger: the constructor and write;                   *)
(*   SpecMain    run.py's main over the command-line flags.                *)
(* Text that the code transforms or iterates is a sequence of              *)
(* one-character strings, so that str.replace, concatenation and iteration *)
(* are computed; the logger's bsuite_id is such a text, main's is a string *)
(* it only compares.                                                       *)
(***************************************************************************)
EXTENDS Integers, Sequences, FiniteSets, TLC

\* ------------------------------------------------------------------ bounds
\* Largest sequence_length an agent is constructed with.
MaxSeqLen == 4
\* Number of update calls explored on one agent.
MaxCalls == 7
\* Largest number of keys drawn from the agent's random sequence.
MaxDraws == 3
\* Longest bsuite_id handed to the logger.
MaxIdLen == 3
\* Number of write calls explored on one logger.
MaxWrites == 2

VARIABLES
    \* --- ActorCritic
    sequence_length,   \* the constructor's sequence_length
    state,             \* self._state : TrainingState
    buffer,            \* self._buffer : sequence.Buffer
    rng,               \* self._rng : number of keys drawn so far
    \* --- what a run of the agent lets one observe
    op,                \* the last method called on the agent
    calls,             \* new_timestep.last() of every update call so far
    fed,               \* the arguments of the last update call (else <<>>)
    appended,          \* append calls since the last drain call
    at_test,           \* the same count when line 117 was last evaluated
    full_seen,         \* what self._buffer.full() returned at line 117
    trajectory,        \* the trajectory last handed to sgd_step
    error,             \* the exception the last update raised, if any
    \* --- WandbLogger and the wandb client
    logger,            \* the constructor's arguments, once it has run (else <<>>)
    wandb_runs,        \* the runs wandb.init opened, in order
    wandb_log,         \* the data wandb.log received
    \* --- run.py
    FLAGS,             \* the absl flags
    main_pc,           \* where main is
    raised,            \* the exception main raised, if any
    loaded,            \* the environments loaded, in order
    agents,            \* the number of agents constructed
    experiments        \* the experiment.run calls, in order

agent_vars == <<sequence_length, state, buffer, rng, op, calls, fed, appended,
                at_test, full_seen, trajectory, error>>
logger_vars == <<logger, wandb_runs, wandb_log>>
main_vars == <<FLAGS, main_pc, raised, loaded, agents, experiments>>
vars == <<agent_vars, logger_vars, main_vars>>

\* ----------------------------------------------------------- the environment
\* dm_env.TimeStep as the agent reads it: observation, reward, discount, last().
MidStep(o, r) == [observation |-> o, reward |-> r, discount |-> 1, last |-> FALSE]
LastStep(o, r) == [observation |-> o, reward |-> r, discount |-> 0, last |-> TRUE]

\* The transitions (timestep, action, new_timestep) fed to update.
Transitions ==
    { [timestep |-> MidStep(1, 0), action |-> 0, new_timestep |-> MidStep(2, 0)],
      [timestep |-> MidStep(2, 0), action |-> 1, new_timestep |-> MidStep(1, 1)],
      [timestep |-> MidStep(2, 0), action |-> 1, new_timestep |-> LastStep(3, 1)] }

\* ------------------------------------------------- sequence.Buffer (4.1)
Fill(n, v) == [i \in 1..n |-> v]

\* Buffer(obs_spec, action_spec, max_sequence_length): preallocated arrays,
\* the observations one longer than the others, a write cursor t, and whether
\* the first slot holds an observation carried from the previous segment.
NewBuffer(capacity) ==
    [ capacity     |-> capacity,
      t            |-> 0,
      carried      |-> FALSE,
      observations |-> Fill(capacity + 1, 0),
      actions      |-> Fill(capacity, 0),
      rewards      |-> Fill(capacity, 0),
      discounts    |-> Fill(capacity, 0) ]

\* full(): the cursor has reached the declared capacity.
Full(b) == b.t = b.capacity

\* append(timestep, action, new_timestep): the transition is recorded at the
\* cursor and the cursor advances by one.  The observation after the step
\* goes to slot t+1.  The observation before the step is already there: it
\* is the one the previous append wrote, or the one the last drain carried
\* forward; only the first append of a buffer that was never drained has to
\* write it.
BufferAppend(b, timestep, action, new_timestep) ==
    [ b EXCEPT
        !.observations = [ @ EXCEPT
            ![1]       = IF b.t = 0 /\ ~b.carried THEN timestep.observation ELSE @,
            ![b.t + 2] = new_timestep.observation ],
        !.actions      = [ @ EXCEPT ![b.t + 1] = action ],
        !.rewards      = [ @ EXCEPT ![b.t + 1] = new_timestep.reward ],
        !.discounts    = [ @ EXCEPT ![b.t + 1] = new_timestep.discount ],
        !.t            = b.t + 1 ]

\* A drain whose observations stop at the cursor, like the other arrays.
DrainedTrajectory_ShortObs(b) ==
    [ observations |-> SubSeq(b.observations, 1, b.t),
      actions      |-> SubSeq(b.actions, 1, b.t),
      rewards      |-> SubSeq(b.rewards, 1, b.t),
      discounts    |-> SubSeq(b.discounts, 1, b.t) ]

\* The Trajectory drain() returns: observations[:t+1] and the other arrays [:t].
DrainedTrajectory(b) ==
    [ observations |-> SubSeq(b.observations, 1, b.t + 1),
      actions      |-> SubSeq(b.actions, 1, b.t),
      rewards      |-> SubSeq(b.rewards, 1, b.t),
      discounts    |-> SubSeq(b.discounts, 1, b.t) ]

\* A drain that forgets the observation it should carry forward.
DrainedBuffer_NoCarry(b) == [ b EXCEPT !.t = 0 ]

\* The buffer drain() leaves: the cursor is zero and the most recent
\* observation is the first observation of the next segment.
DrainedBuffer(b) ==
    [ b EXCEPT !.observations = [ @ EXCEPT ![1] = b.observations[b.t + 1] ],
               !.carried = TRUE,
               !.t = 0 ]

\* ------------------------------------------------------------ ActorCritic
NoTrajectory == [ observations |-> <<>>, actions |-> <<>>,
                  rewards |-> <<>>, discounts |-> <<>> ]

\* TrainingState(params, opt_state) after n learning steps: the two fields are
\* the versions of the parameters and of the optimiser state.
TrainingState(params, opt_state) == [ params |-> params, opt_state |-> opt_state ]

\* sgd_step: both fields are replaced together by the optimiser's result.
sgd_step(s, traj) == TrainingState(s.params + 1, s.opt_state + 1)

\* loss reads values[:-1], values[1:] (one value per observation) against the
\* rewards, the discounts and the actions: the shapes it needs to agree.
LossShapesAgree(traj) ==
    /\ Len(traj.observations) >= 1
    /\ Len(traj.observations) - 1 = Len(traj.rewards)
    /\ Len(traj.observations) - 1 = Len(traj.discounts)
    /\ Len(traj.observations) - 1 = Len(traj.actions)

\* A constructor that declares one slot too many.
AgentBuffer_OffByOne(sl) == NewBuffer(sl + 1)

\* __init__, line 97: the buffer is declared with sequence_length.
AgentBuffer(sl) == NewBuffer(sl)

\* A test that learns only when the segment is full and the episode ended.
ShouldLearn_And(b, new_timestep) == Full(b) /\ new_timestep.last

\* A test that forgets the end of the episode.
ShouldLearn_OnlyFull(b, new_timestep) == Full(b)

\* update, line 117: the test made after the append.
ShouldLearn(b, new_timestep) == Full(b) \/ new_timestep.last

AgentInit ==
    /\ sequence_length \in 1..MaxSeqLen
    /\ state = TrainingState(0, 0)
    /\ buffer = AgentBuffer(sequence_length)
    /\ rng = 1                      \* __init__ draws the initialisation key
    /\ op = "init"
    /\ calls = <<>>
    /\ fed = <<>>
    /\ appended = 0
    /\ at_test = 0
    /\ full_seen = FALSE
    /\ trajectory = NoTrajectory
    /\ error = "none"

\* A select_action that draws two keys.
SelectAction_TwoDraws ==
    /\ rng < MaxDraws
    /\ rng' = rng + 2
    /\ op' = "select_action"
    /\ UNCHANGED <<sequence_length, state, buffer, calls, fed, appended, at_test,
                   full_seen, trajectory, error>>

\* select_action: one key is drawn; the forward pass and the sampling read
\* the parameters and write nothing.
SelectAction ==
    /\ rng < MaxDraws
    /\ rng' = rng + 1
    /\ op' = "select_action"
    /\ UNCHANGED <<sequence_length, state, buffer, calls, fed, appended, at_test,
                   full_seen, trajectory, error>>

\* update(timestep, action, new_timestep), the whole method.
UpdateWith(x) ==
    /\ Len(calls) < MaxCalls
    /\ op' = "update"
    /\ calls' = Append(calls, x.new_timestep.last)
    /\ fed' = <<x>>
    /\ IF Full(buffer)
         THEN \* append on a full buffer fails and update is left by the exception
              /\ error' = "ValueError"
              /\ UNCHANGED <<sequence_length, state, buffer, rng, appended,
                             at_test, full_seen, trajectory>>
         ELSE LET b1 == BufferAppend(buffer, x.timestep, x.action, x.new_timestep)
                  learn == ShouldLearn(b1, x.new_timestep)
                  traj == DrainedTrajectory(b1)
              IN  /\ error' = "none"
                  /\ at_test' = appended + 1
                  /\ appended' = IF learn THEN 0 ELSE appended + 1
                  /\ full_seen' = Full(b1)
                  /\ buffer' = IF learn THEN DrainedBuffer(b1) ELSE b1
                  /\ trajectory' = IF learn THEN traj ELSE trajectory
                  /\ state' = IF learn THEN sgd_step(state, traj) ELSE state
                  /\ UNCHANGED <<sequence_length, rng>>

Update == \E x \in Transitions : UpdateWith(x)

\* ------------------------------------------------------------ WandbLogger
SAFE_SEPARATOR == "-"
INITIAL_SEPARATOR == <<"_", "-", "_">>
BSUITE_PREFIX == <<"b", "s", "u", "i", "t", "e", "_", "i", "d">> \o INITIAL_SEPARATOR

\* sweep.SEPARATOR, the '/' of line 66.
SEPARATOR == "/"

\* str.replace(old, new) for a one-character old and new.
Replace(s, old, new) == [i \in 1..Len(s) |-> IF s[i] = old THEN new ELSE s[i]]

\* Lines 67-68: safe_bsuite_id and experiment_name.
ExperimentName(bsuite_id) ==
    BSUITE_PREFIX \o Replace(bsuite_id, SEPARATOR, SAFE_SEPARATOR)

\* The name wandb gives a run that is opened without one.
GeneratedName == <<"r", "u", "n">>

\* wandb.init(**kwargs): the run it opens; its name is the keyword `name`
\* when the call passes one.
WandbRun(kwargs) ==
    [ kwargs |-> kwargs,
      name   |-> IF "name" \in DOMAIN kwargs THEN kwargs.name ELSE GeneratedName ]

Alphabet == {"c", "/", "0"}
LoggerIds == UNION { [1..n -> Alphabet] : n \in 1..MaxIdLen }
Projects ==
    { [ project_name |-> "rl-with-ts-obs", project_entity |-> "bolling-adrien",
        project_group |-> "ts-bsuite", project_config |-> "None",
        project_tags |-> "None" ] }
LogData == { [episode |-> 1, total_return |-> 0], [episode |-> 2, total_return |-> 1] }

\* WandbLogger.__init__: experiment_name is computed and the run is opened
\* with the project, entity, group, config, tags and reinit keywords.
LoggerInit(bsuite_id, p, overwrite) ==
    /\ logger = <<>>
    /\ LET experiment_name == ExperimentName(bsuite_id)
       IN  wandb_runs' = Append(wandb_runs,
                         WandbRun([ project |-> p.project_name,
                                   entity  |-> p.project_entity,
                                   group   |-> p.project_group,
                                   config  |-> p.project_config,
                                   tags    |-> p.project_tags,
                                   reinit  |-> overwrite ]))
    /\ logger' = << [ bsuite_id |-> bsuite_id, overwrite |-> overwrite ] >>
    /\ UNCHANGED wandb_log

\* WandbLogger.write: the data goes to wandb.log, once.
Write(data) ==
    /\ logger # <<>>
    /\ Len(wandb_log) < MaxWrites
    /\ wandb_log' = Append(wandb_log, data)
    /\ UNCHANGED <<logger, wandb_runs>>

\* ------------------------------------------------------------------ run.py
\* sweep.SWEEP: the ids of the registry.
SWEEP == { "c/0", "c/1" }

\* Iterating a str gives its characters, each a str of length one; the texts
\* that main can come to iterate are kept as sequences of characters.
ModuleFile == << "/", "r", "o", "o", "t", "/", "w", "o", "r", "k", "s", "p",
                 "a", "c", "e", "/", "s", "r", "c", "/", "b", "s", "u", "i",
                 "t", "e", "/", "s", "w", "e", "e", "p", ".", "p", "y" >>
ModuleCached == << "/", "r", "o", "o", "t", "/", "w", "o", "r", "k", "s",
                   "p", "a", "c", "e", "/", "s", "r", "c", "/", "b", "s",
                   "u", "i", "t", "e", "/", "_", "_", "p", "y", "c", "a",
                   "c", "h", "e", "_", "_", "/", "s", "w", "e", "e", "p",
                   ".", "c", "p", "y", "t", "h", "o", "n", "-", "3", "1",
                   "1", ".", "p", "y", "c" >>

\* The keys of the builtins dict every module holds as __builtins__.
BuiltinNames ==
    << "__name__", "__doc__", "__package__", "__loader__", "__spec__",
       "__build_class__", "__import__", "abs", "all", "any", "ascii", "bin",
       "breakpoint", "callable", "chr", "compile", "delattr", "dir",
       "divmod", "eval", "exec", "format", "getattr", "globals", "hasattr",
       "hash", "hex", "id", "input", "isinstance", "issubclass", "iter",
       "aiter", "len", "locals", "max", "min", "next", "anext", "oct", "ord",
       "pow", "print", "repr", "round", "setattr", "sorted", "sum", "vars",
       "None", "Ellipsis", "NotImplemented", "False", "True", "bool",
       "memoryview", "bytearray", "bytes", "classmethod", "complex", "dict",
       "enumerate", "filter", "float", "frozenset", "property", "int",
       "list", "map", "object", "range", "reversed", "set", "slice",
       "staticmethod", "str", "super", "tuple", "type", "zip", "__debug__",
       "BaseException", "BaseExceptionGroup", "Exception", "GeneratorExit",
       "KeyboardInterrupt", "SystemExit", "ArithmeticError",
       "AssertionError", "AttributeError", "BufferError", "EOFError",
       "ImportError", "LookupError", "MemoryError", "NameError", "OSError",
       "ReferenceError", "RuntimeError", "StopAsyncIteration",
       "StopIteration", "SyntaxError", "SystemError", "TypeError",
       "ValueError", "Warning", "FloatingPointError", "OverflowError",
       "ZeroDivisionError", "BytesWarning", "DeprecationWarning",
       "EncodingWarning", "FutureWarning", "ImportWarning",
       "PendingDeprecationWarning", "ResourceWarning", "RuntimeWarning",
       "SyntaxWarning", "UnicodeWarning", "UserWarning", "BlockingIOError",
       "ChildProcessError", "ConnectionError", "FileExistsError",
       "FileNotFoundError", "InterruptedError", "IsADirectoryError",
       "NotADirectoryError", "PermissionError", "ProcessLookupError",
       "TimeoutError", "IndentationError", "IndexError", "KeyError",
       "ModuleNotFoundError", "NotImplementedError", "RecursionError",
       "UnboundLocalError", "UnicodeError", "BrokenPipeError",
       "ConnectionAbortedError", "ConnectionRefusedError",
       "ConnectionResetError", "TabError", "UnicodeDecodeError",
       "UnicodeEncodeError", "UnicodeTranslateError", "ExceptionGroup",
       "EnvironmentError", "IOError", "open", "quit", "exit", "copyright",
       "credits", "license", "help" >>

\* sweep.__dict__, in order: what the import machinery puts in every module,
\* then what the module defines (SEPARATOR, a sweep C and SWEEP). kind is the
\* type of the value and items what iterating the value yields.
ModuleNamespace ==
    << [ name |-> "__name__", kind |-> "str",
       items |-> << "b", "s", "u", "i", "t", "e", ".", "s", "w", "e", "e", "p" >> ],
       [ name |-> "__doc__", kind |-> "none",
       items |-> <<>> ],
       [ name |-> "__package__", kind |-> "str",
       items |-> << "b", "s", "u", "i", "t", "e" >> ],
       [ name |-> "__loader__", kind |-> "object",
       items |-> <<>> ],
       [ name |-> "__spec__", kind |-> "object",
       items |-> <<>> ],
       [ name |-> "__file__", kind |-> "str",
       items |-> ModuleFile ],
       [ name |-> "__cached__", kind |-> "str",
       items |-> ModuleCached ],
       [ name |-> "__builtins__", kind |-> "dict",
       items |-> BuiltinNames ],
       [ name |-> "SEPARATOR", kind |-> "str",
       items |-> << SEPARATOR >> ],
       [ name |-> "C", kind |-> "tuple",
       items |-> << "c/0", "c/1" >> ],
       [ name |-> "SWEEP", kind |-> "tuple",
       items |-> << "c/0", "c/1" >> ] >>

NamespaceNames == [ i \in 1..Len(ModuleNamespace) |-> ModuleNamespace[i].name ]

\* The attributes a module object has from its type and from object, whose
\* values cannot be iterated (the type itself and bound methods).
ModuleTypeAttrs ==
    { "__class__", "__delattr__", "__dir__", "__eq__", "__format__",
      "__ge__", "__getattribute__", "__getstate__", "__gt__", "__hash__",
      "__init__", "__init_subclass__", "__le__", "__lt__", "__ne__",
      "__new__", "__reduce__", "__reduce_ex__", "__repr__", "__setattr__",
      "__sizeof__", "__str__", "__subclasshook__" }

\* hasattr(sweep, name), line 117: the names of the namespace and those the
\* type of the module provides, __dict__ and __annotations__ among them.
SweepAttrs ==
    { NamespaceNames[i] : i \in 1..Len(NamespaceNames) }
      \cup ModuleTypeAttrs \cup { "__dict__", "__annotations__" }

\* getattr(sweep, name), as pool.map_mpi iterates it: the ids of a tuple,
\* the characters of a str, the keys of a dict, or a TypeError for a value
\* that cannot be iterated.
SweepAttr(name) ==
    IF name = "__dict__"
      THEN [ iterable |-> TRUE, items |-> NamespaceNames ]
    ELSE IF name = "__annotations__"
      THEN [ iterable |-> TRUE, items |-> <<>> ]
    ELSE IF name \in ModuleTypeAttrs
      THEN [ iterable |-> FALSE, items |-> <<>> ]
    ELSE LET e == CHOOSE x \in { ModuleNamespace[i] : i \in 1..Len(ModuleNamespace) } :
                      x.name = name
         IN  [ iterable |-> e.kind \in {"str", "tuple", "dict"},
               items |-> e.items ]

MainIds == SWEEP \cup SweepAttrs \cup { "x/0", "" }
LoggingModes == {"csv", "sqlite", "terminal", "wandb"}

\* FLAGS.num_episodes or getattr(env, 'bsuite_num_episodes'): <<>> is None.
NumEpisodes(flags) ==
    IF flags.num_episodes = <<>> \/ flags.num_episodes = <<0>>
      THEN "bsuite_num_episodes"
      ELSE flags.num_episodes[1]

\* What run(bsuite_id) and run_with_wandb_logging(bsuite_id) do, in order:
\* load the environment, build the default agent, run the experiment.
Loaded(flags, bsuite_id, loader) ==
    [ bsuite_id |-> bsuite_id, loader |-> loader, overwrite |-> flags.overwrite ]
Experiment(flags, bsuite_id) ==
    [ bsuite_id |-> bsuite_id, num_episodes |-> NumEpisodes(flags),
      verbose |-> flags.verbose ]

\* Lines 111-115: one experiment, through the loader the logging mode picks.
SingleOutcome(flags) ==
    [ flags  |-> flags, raised |-> "none",
      loaded |-> << Loaded(flags, flags.bsuite_id,
                           IF flags.logging_mode = "wandb"
                             THEN "load_and_record_to_wandb"
                             ELSE "load_and_record") >>,
      experiments |-> << Experiment(flags, flags.bsuite_id) >> ]

\* Lines 118-121: verbose is switched off and run is mapped, in order, over
\* what iterating the attribute yields; a value that cannot be iterated ends
\* the map by TypeError.
SweepOutcome(flags) ==
    LET bsuite_sweep == SweepAttr(flags.bsuite_id)
        quiet == [ flags EXCEPT !.verbose = FALSE ]
    IN  IF bsuite_sweep.iterable
          THEN [ flags  |-> quiet, raised |-> "none",
                 loaded |-> [ i \in 1..Len(bsuite_sweep.items) |->
                                Loaded(quiet, bsuite_sweep.items[i],
                                       "load_and_record") ],
                 experiments |-> [ i \in 1..Len(bsuite_sweep.items) |->
                                     Experiment(quiet, bsuite_sweep.items[i]) ] ]
          ELSE [ flags  |-> quiet, raised |-> "TypeError",
                 loaded |-> <<>>, experiments |-> <<>> ]

\* A main without its last branch: an unknown id is run like a known one.
MainOutcome_NoElse(flags) ==
    IF flags.bsuite_id \in SweepAttrs /\ flags.bsuite_id \notin SWEEP
      THEN SweepOutcome(flags)
      ELSE SingleOutcome(flags)

\* The outcome of main: the flags, the exception, and the runs made.
MainOutcome(flags) ==
    IF flags.bsuite_id \in SWEEP
      THEN SingleOutcome(flags)
    ELSE IF flags.bsuite_id \in SweepAttrs
      THEN SweepOutcome(flags)
    ELSE [ flags |-> flags, raised |-> "ValueError",
           loaded |-> <<>>, experiments |-> <<>> ]

\* main(_), the whole function.
Main ==
    /\ main_pc = "start"
    /\ LET out == MainOutcome(FLAGS)
       IN  /\ FLAGS' = out.flags
           /\ raised' = out.raised
           /\ loaded' = loaded \o out.loaded
           /\ agents' = agents + Len(out.loaded)
           /\ experiments' = experiments \o out.experiments
           /\ main_pc' = IF out.raised = "none" THEN "returned" ELSE "raised"

\* ------------------------------------------------------ the specifications
LoggerIdle ==
    /\ logger = <<>>
    /\ wandb_runs = <<>>
    /\ wandb_log = <<>>

MainIdle ==
    /\ FLAGS = <<>>
    /\ main_pc = "idle"
    /\ raised = "none"
    /\ loaded = <<>>
    /\ agents = 0
    /\ experiments = <<>>

Init == AgentInit /\ LoggerIdle /\ MainIdle

Next ==
    \/ SelectAction /\ UNCHANGED <<logger_vars, main_vars>>
    \/ Update /\ UNCHANGED <<logger_vars, main_vars>>

Spec == Init /\ [][Next]_vars

AgentIdle ==
    /\ sequence_length = 1
    /\ state = TrainingState(0, 0)
    /\ buffer = AgentBuffer(1)
    /\ rng = 1
    /\ op = "init"
    /\ calls = <<>>
    /\ fed = <<>>
    /\ appended = 0
    /\ at_test = 0
    /\ full_seen = FALSE
    /\ trajectory = NoTrajectory
    /\ error = "none"

InitLogger == AgentIdle /\ LoggerIdle /\ MainIdle

NextLogger ==
    \/ (\E id \in LoggerIds, p \in Projects, overwrite \in BOOLEAN :
            LoggerInit(id, p, overwrite))
          /\ UNCHANGED <<agent_vars, main_vars>>
    \/ (\E data \in LogData : Write(data))
          /\ UNCHANGED <<agent_vars, main_vars>>

SpecLogger == InitLogger /\ [][NextLogger]_vars

InitMain ==
    /\ AgentIdle
    /\ LoggerIdle
    /\ FLAGS \in [ bsuite_id : MainIds, logging_mode : LoggingModes,
                    overwrite : BOOLEAN, verbose : BOOLEAN,
                    num_episodes : { <<>>, <<0>>, <<2>> } ]
    /\ main_pc = "start"
    /\ raised = "none"
    /\ loaded = <<>>
    /\ agents = 0
    /\ experiments = <<>>

NextMain == Main /\ UNCHANGED <<agent_vars, logger_vars>>

SpecMain == InitMain /\ [][NextMain]_vars

\* ------------------------------------------------------------------ claims
\* The last update call reached line 118 (it drained the buffer).
Drained == at_test >= 1 /\ appended = 0
LastCallTerminal == calls # <<>> /\ calls[Len(calls)]

\* C1: every update call performs zero or one learning step, and performs one
\* exactly when, once its transition is appended, the number of transitions
\* appended since the last drain equals sequence_length or the new timestep
\* is terminal.
C1_OneStepIffFullOrLast ==
    [][ op' = "update" =>
          LET steps == state'.params - state.params
          IN  /\ steps \in {0, 1}
              /\ (steps = 1) <=> (appended + 1 = sequence_length
                                    \/ calls'[Len(calls')]) ]_vars

\* A terminal update on a partly filled buffer has learned, after an earlier
\* update that did not.
C1_Witness ==
    /\ op = "update"
    /\ LastCallTerminal
    /\ at_test < sequence_length
    /\ state.params >= 1
    /\ state.params < Len(calls)

\* C2: at line 117, full() is false while fewer than sequence_length
\* transitions have been appended since the last drain, and true when exactly
\* sequence_length have.
C2_FullAtCapacity ==
    at_test >= 1 =>
        /\ at_test < sequence_length => ~full_seen
        /\ at_test = sequence_length => full_seen
        /\ at_test <= sequence_length

\* full() answered true on the third append of a segment of capacity three.
C2_Witness == sequence_length = 3 /\ at_test = 3 /\ full_seen

\* C3: every update call that drains, on a full or on a partly filled buffer,
\* leaves the cursor at zero and the last observation it appended in the
\* first slot; every later update call that does not drain leaves that first
\* slot as it is; and the trajectory the next drain returns begins with the
\* observation the previous trajectory ended with.
C3_DrainResetsAndCarries ==
    [][ (op' = "update" /\ error' = "none") =>
          LET drains == appended' = 0
              last_appended == fed'[1].new_timestep.observation
              previous_end == trajectory.observations[Len(trajectory.observations)]
          IN  /\ drains =>
                    /\ buffer'.t = 0
                    /\ buffer'.observations[1] = last_appended
                    /\ trajectory'.observations[Len(trajectory'.observations)]
                           = last_appended
              /\ (drains /\ state.params >= 1) =>
                    trajectory'.observations[1] = previous_end
              /\ (~drains /\ state.params >= 1) =>
                    /\ buffer'.observations[1] = previous_end
                    /\ buffer'.observations[1] = buffer.observations[1] ]_vars

\* A partly filled buffer was drained at the end of an episode, and the
\* segment it returned began with the terminal observation of the episode
\* before, which no timestep handed to append in that segment carried.
C3_Witness ==
    /\ Drained
    /\ LastCallTerminal
    /\ at_test >= 2
    /\ at_test < sequence_length
    /\ state.params >= 2
    /\ trajectory.observations[1] = 3
    /\ Len(trajectory.observations) = at_test + 1
    /\ buffer.observations[1] = 3

\* C4: the trajectory a drain returns has one observation more than the
\* number of transitions appended since the previous drain, and exactly that
\* number of actions, rewards and discounts; every trajectory handed to the
\* loss has the shapes the loss pairs up.
C4_TrajectoryShape ==
    /\ Drained =>
         /\ Len(trajectory.observations) = at_test + 1
         /\ Len(trajectory.actions) = at_test
         /\ Len(trajectory.rewards) = at_test
         /\ Len(trajectory.discounts) = at_test
    /\ state.params >= 1 => LossShapesAgree(trajectory)

\* A drained trajectory of two transitions, from a buffer that holds more.
C4_Witness ==
    /\ Drained
    /\ at_test = 2
    /\ sequence_length >= 3
    /\ Len(trajectory.observations) = 3

\* C5, as stated: draining a full buffer gives one observation more than
\* actions, rewards and discounts, and that difference is the capacity.
C5_Original ==
    (Drained /\ full_seen) =>
        /\ Len(trajectory.observations) = Len(trajectory.actions) + 1
        /\ Len(trajectory.observations) = Len(trajectory.rewards) + 1
        /\ Len(trajectory.observations) = Len(trajectory.discounts) + 1
        /\ Len(trajectory.observations) - Len(trajectory.actions) = sequence_length

\* C5, amended: draining a full buffer gives exactly sequence_length actions,
\* rewards and discounts, and one observation more.
C5_FullTrajectory ==
    (Drained /\ full_seen) =>
        /\ Len(trajectory.actions) = sequence_length
        /\ Len(trajectory.rewards) = sequence_length
        /\ Len(trajectory.discounts) = sequence_length
        /\ Len(trajectory.observations) = sequence_length + 1

\* A full buffer of capacity three was drained.
C5_Witness == Drained /\ full_seen /\ sequence_length = 3 /\ state.params >= 1

NonTerminal(n) == [i \in 1..n |-> FALSE]

\* C6, as stated: with sequence_length 4, four non-terminal updates give one
\* learning step, on the fourth, and a cursor of zero; two more and a
\* terminal one give a second step, on the terminal one, over a trajectory of
\* length 2.
C6_Original ==
    sequence_length = 4 =>
        /\ calls = NonTerminal(3) => state.params = 0
        /\ calls = NonTerminal(4) => state.params = 1 /\ buffer.t = 0
        /\ calls = NonTerminal(6) => state.params = 1
        /\ calls = NonTerminal(6) \o <<TRUE>> =>
             /\ state.params = 2
             /\ Len(trajectory.actions) = 2 \/ Len(trajectory.observations) = 2

\* C6, amended: the second learning step receives the three transitions of
\* the unfinished segment (three actions, rewards and discounts and four
\* observations), not four.
C6_Scenario ==
    sequence_length = 4 =>
        /\ calls = NonTerminal(3) => state.params = 0
        /\ calls = NonTerminal(4) => state.params = 1 /\ buffer.t = 0
        /\ calls = NonTerminal(6) => state.params = 1
        /\ calls = NonTerminal(6) \o <<TRUE>> =>
             /\ state.params = 2
             /\ Len(trajectory.actions) = 3
             /\ Len(trajectory.rewards) = 3
             /\ Len(trajectory.discounts) = 3
             /\ Len(trajectory.observations) = 4

\* The scenario has run to its end.
C6_Witness ==
    /\ sequence_length = 4
    /\ calls = NonTerminal(6) \o <<TRUE>>
    /\ state.params = 2

\* C7: select_action draws exactly one key and leaves the training state and
\* the buffer, cursor and contents, as they were.
C7_SelectActionFrame ==
    [][ op' = "select_action" =>
          /\ rng' = rng + 1
          /\ state' = state
          /\ buffer' = buffer ]_vars

\* select_action was called twice on an agent that has learned and whose
\* buffer holds a transition.
C7_Witness ==
    /\ op = "select_action"
    /\ rng = 3
    /\ state.params >= 1
    /\ buffer.t >= 1

\* C8, as stated: the run the logger opens is named by the fixed prefix
\* followed by the bsuite_id with every separator replaced by '-'.
C8_RunName ==
    \A i \in 1..Len(wandb_runs) :
        wandb_runs[i].name =
            <<"b", "s", "u", "i", "t", "e", "_", "i", "d", "_", "-", "_">>
              \o [ k \in 1..Len(logger[1].bsuite_id) |->
                     IF logger[1].bsuite_id[k] = "/" THEN "-"
                     ELSE logger[1].bsuite_id[k] ]

\* C9: main with a bsuite_id that is neither in sweep.SWEEP nor the name of
\* an attribute of the sweep module raises ValueError, having loaded no
\* environment, built no agent and run no experiment.
C9_InvalidIdRaises ==
    (main_pc # "start" /\ FLAGS.bsuite_id \notin SWEEP \cup SweepAttrs) =>
        /\ main_pc = "raised"
        /\ raised = "ValueError"
        /\ loaded = <<>>
        /\ agents = 0
        /\ experiments = <<>>

\* main has raised on the unknown id x/0.
C9_Witness ==
    /\ main_pc = "raised"
    /\ raised = "ValueError"
    /\ FLAGS.bsuite_id = "x/0"
    /\ FLAGS.logging_mode = "wandb"

\* C10: the buffer is never full when update appends: between calls the
\* cursor is below the capacity, inside a call it is at most the capacity,
\* and no append has failed.
C10_NeverAppendOnFull ==
    /\ buffer.capacity = sequence_length
    /\ buffer.t < buffer.capacity
    /\ at_test <= buffer.capacity
    /\ error = "none"

\* The buffer became full in an update and was drained by it, twice over.
C10_Witness ==
    /\ Drained
    /\ full_seen
    /\ sequence_length = 2
    /\ state.params >= 2
    /\ ~LastCallTerminal

====
